---- MODULE Spec2Model ----
(***************************************************************************)
(* Model of the surface-to-wall validator.                                 *)
(*                                                                         *)
(*   computations/surface_wall_matcher.py  MeshBufferer,                   *)
(*       InteriorPointGenerator, SurfaceWallMatcher                        *)
(*   models/etabs_model.py                 AnalyticalSurface               *)
(*   models/revit_model.py                 RevitWall                       *)
(*   models/revit.py                       get_revit_model                 *)
(*                                                                         *)
(* Geometry is exact.  Coordinates are integers.  A wall mesh is a set of  *)
(* vertices, each with the sign vector of its vertex normal and the body   *)
(* (connected component of the faces) it belongs to: the bodies here are   *)
(* axis-aligned boxes, whose vertex normals are (+-1,+-1,+-1)/sqrt(3).     *)
(* A buffered vertex keeps its base position, its normal and the distance, *)
(* and every comparison against it is decided exactly by Sqrt3Sign.        *)
(* Points handed to the classifier are in units of 1/(num_points-1), so    *)
(* that the lattice of linspace is integral.                               *)
(***************************************************************************)
EXTENDS Integers, Sequences, FiniteSets, TLC

VARIABLES
    analytical_surfaces,   \* argument of find_matching_partners
    architectural_walls,   \* argument of find_matching_partners
    buffer_distance,       \* SurfaceWallMatcher.buffer_distance
    boundary_inside,       \* verdict of Trimesh.contains for a point on the mesh
    matches,               \* the dict find_matching_partners builds
    task,                  \* one process_surface future per surface
    writes,                \* per future, what each of its assignments to matches changed
    outcome,               \* "off" | "running" | "returned"
    server_branch,         \* what speckle_client.branch.get answers
    run_model_id,          \* automation_run_data.model_id
    model,                 \* local of get_revit_model
    revit_pc,              \* position inside get_revit_model
    revit_out,             \* the message raised or the tuple returned
    received               \* objects handed to operations.receive so far

vars == << analytical_surfaces, architectural_walls, buffer_distance,
           boundary_inside, matches, task, writes, outcome,
           server_branch, run_model_id, model, revit_pc, revit_out, received >>

matcher_vars == << analytical_surfaces, architectural_walls, buffer_distance,
                   boundary_inside, matches, task, writes, outcome >>

revit_vars == << server_branch, run_model_id, model, revit_pc, revit_out, received >>

----------------------------------------------------------------------------
(* Bounds of the model. *)

MaxSurfaces == 2      \* surfaces per call
MaxWalls == 2         \* walls per call
MaxDist == 2          \* buffer distances 0 .. MaxDist
MaxNegDist == 2       \* and -MaxNegDist .. -1
MaxWorkers == 2       \* threads of the pool
MaxCommits == 2       \* versions of a model on the server

Axes == 1 .. 3

None == "None"

\* The None that branch.get answers for a name the project does not have.
NoModel == [ id |-> None, commits |-> << >> ]

----------------------------------------------------------------------------
(* Exact arithmetic. *)

Sign(x) == IF x > 0 THEN 1 ELSE IF x < 0 THEN -1 ELSE 0

\* The sign of m * sqrt(3) - d, for integers m and d.
Sqrt3Sign(m, d) ==
    IF m >= 0 /\ d <= 0 THEN (IF m = 0 /\ d = 0 THEN 0 ELSE 1)
    ELSE IF m <= 0 /\ d >= 0 THEN -1
    ELSE IF m > 0 THEN Sign(3 * m * m - d * d)
    ELSE Sign(d * d - 3 * m * m)

SeqMin(S) == CHOOSE x \in S : \A y \in S : x <= y
SeqMax(S) == CHOOSE x \in S : \A y \in S : x >= y

----------------------------------------------------------------------------
(* models/etabs_model.py: AnalyticalSurface *)

AnalyticalSurface(points, surface_id) ==
    [ points |-> points,
      id     |-> surface_id,
      bounds |-> << [a \in Axes |-> SeqMin({ points[i][a] : i \in DOMAIN points })],
                    [a \in Axes |-> SeqMax({ points[i][a] : i \in DOMAIN points })] >> ]

----------------------------------------------------------------------------
(* trimesh.Trimesh as far as the matcher reads it, and models/revit_model.py *)

\* The eight corners of the closed box [lo, hi], faces of body b: the normal
\* of a corner points away from the box on every axis.
BoxVertices(b, lo, hi) ==
    { [ body   |-> b,
        pos    |-> [a \in Axes |-> IF s[a] = 1 THEN hi[a] ELSE lo[a]],
        normal |-> s,
        dist   |-> 0 ] : s \in [Axes -> {-1, 1}] }

\* A mesh of one box.
BoxMesh(lo, hi) == [ vertices |-> BoxVertices(1, lo, hi) ]

\* A mesh of two boxes that do not touch (a wall cut by a full-height opening).
TwoBoxMesh(lo1, hi1, lo2, hi2) ==
    [ vertices |-> BoxVertices(1, lo1, hi1) \cup BoxVertices(2, lo2, hi2) ]

\* A mesh without vertices and faces, as get_architectural_walls builds it from
\* a displayValue whose arrays are empty.
EmptyMesh == [ vertices |-> {} ]

\* Trimesh.bounds: None for a mesh without vertices.
MeshBounds(mesh) ==
    IF mesh.vertices = {} THEN None
    ELSE << [a \in Axes |-> SeqMin({ v.pos[a] : v \in mesh.vertices })],
            [a \in Axes |-> SeqMax({ v.pos[a] : v \in mesh.vertices })] >>

RevitWall(mesh, wall_id) ==
    [ mesh |-> mesh, id |-> wall_id, bounds |-> MeshBounds(mesh) ]

----------------------------------------------------------------------------
(* computations/surface_wall_matcher.py *)

num_points == 5

\* MeshBufferer.create_buffered_mesh: vertices + buffer_distance * vertex_normals,
\* same faces.
create_buffered_mesh(mesh, distance) ==
    [ vertices |-> { [ body |-> v.body, pos |-> v.pos, normal |-> v.normal,
                       dist |-> distance ] : v \in mesh.vertices } ]

\* Sign of (p / (num_points - 1)) - (coordinate a of vertex v), the vertex being
\* at v.pos + v.dist * v.normal / sqrt(3).
CmpVertex(p, v, a) ==
    Sqrt3Sign(p - (num_points - 1) * v.pos[a],
              (num_points - 1) * v.normal[a] * v.dist)

\* Sign of (coordinate a of vertex v) - (coordinate a of vertex u).
CmpVertices(v, u, a) ==
    Sqrt3Sign(v.pos[a] - u.pos[a], u.normal[a] * u.dist - v.normal[a] * v.dist)

\* What the ray test of a mesh works on: every body is the image of a box under
\* a scaling of each axis, so its faces lie at its two extreme vertices on each
\* axis.
RayIntersector(mesh) ==
    { [ body |-> b,
        axis |-> a,
        lo   |-> CHOOSE v \in mesh.vertices :
                     /\ v.body = b
                     /\ \A u \in mesh.vertices : u.body = b => CmpVertices(v, u, a) <= 0,
        hi   |-> CHOOSE v \in mesh.vertices :
                     /\ v.body = b
                     /\ \A u \in mesh.vertices : u.body = b => CmpVertices(v, u, a) >= 0 ]
      : b \in { v.body : v \in mesh.vertices }, a \in Axes }

\* Trimesh.contains for one point: the parity of the faces a ray from the
\* point crosses.  The ray crosses an odd number of faces of a body when the
\* point lies between the faces of the body on every axis, and the parity of
\* the mesh is the parity of the number of such bodies.  For a point on the
\* mesh itself the answer of the ray test is not defined: onBoundary is what
\* it answers.
ContainsPoint(intersector, p, onBoundary) ==
    LET bodies == { e.body : e \in intersector }
        closedIn(b) ==
            \A e \in intersector :
                e.body = b => /\ CmpVertex(p[e.axis], e.lo, e.axis) >= 0
                              /\ CmpVertex(p[e.axis], e.hi, e.axis) <= 0
        strictIn(b) ==
            \A e \in intersector :
                e.body = b => /\ CmpVertex(p[e.axis], e.lo, e.axis) > 0
                              /\ CmpVertex(p[e.axis], e.hi, e.axis) < 0
    IN  IF \E b \in bodies : closedIn(b) /\ ~strictIn(b)
        THEN onBoundary
        ELSE Cardinality({ b \in bodies : strictIn(b) }) % 2 = 1

\* InteriorPointGenerator.generate_interior_points: linspace on each axis and
\* the meshgrid of the three, in units of 1/(num_points - 1).
generate_interior_points(surface) ==
    LET lin(a) == { (num_points - 1) * surface.bounds[1][a]
                    + i * (surface.bounds[2][a] - surface.bounds[1][a])
                    : i \in 0 .. num_points - 1 }
    IN  { << x, y, z >> : x \in lin(1), y \in lin(2), z \in lin(3) }

\* SurfaceWallMatcher.check_surface_wall_match
check_surface_wall_match(surface, wall, distance, onBoundary) ==
    LET buffered_mesh == create_buffered_mesh(wall.mesh, distance)
        intersector == RayIntersector(buffered_mesh)
        vertices_inside ==
            \A i \in DOMAIN surface.points :
                ContainsPoint(intersector,
                              [a \in Axes |-> (num_points - 1) * surface.points[i][a]],
                              onBoundary)
    IN  IF ~vertices_inside THEN FALSE
        ELSE \A p \in generate_interior_points(surface) :
                 ContainsPoint(intersector, p, onBoundary)

\* The test with the tolerance taken off the boxes instead of added to them.
BoundsOverlapShrunk(surface_bounds, wall_bounds, distance) ==
    /\ \A a \in Axes : surface_bounds[1][a] + distance <= wall_bounds[2][a] - distance
    /\ \A a \in Axes : surface_bounds[2][a] - distance >= wall_bounds[1][a] + distance

\* The test of lines 68-69 of process_surface.
BoundsOverlap(surface_bounds, wall_bounds, distance) ==
    /\ \A a \in Axes : surface_bounds[1][a] - distance <= wall_bounds[2][a] + distance
    /\ \A a \in Axes : surface_bounds[2][a] + distance >= wall_bounds[1][a] - distance

\* The entry written the other way round: matches[value] = surface.id
RecordSwapped(m, surface, value) == (value :> surface.id) @@ m

\* matches[surface.id] = value
Record(m, surface, value) == (surface.id :> value) @@ m

\* What an assignment to the dict changed: the keys that are new or whose
\* value differs afterwards.
ChangedKeys(before, after) ==
    { k \in DOMAIN after : k \notin DOMAIN before \/ before[k] # after[k] }

\* Line 75 without its condition.
NeedsNoneAlways(match_found) == TRUE

\* Line 75: if not match_found
NeedsNone(match_found) == ~match_found

----------------------------------------------------------------------------
(* The inputs of a call.  Ids are identities: the surfaces of a call come    *)
(* from extract_analytical_surfaces, which keeps one element per             *)
(* applicationId, and their ids are the content hashes of those elements.    *)

SurfaceCatalogue ==
    { AnalyticalSurface(<< <<1,1,2>>, <<3,1,2>>, <<3,3,2>>, <<1,3,2>> >>, "s1"),
      AnalyticalSurface(<< <<5,1,2>>, <<7,1,2>>, <<7,3,2>>, <<5,3,2>> >>, "s2"),
      AnalyticalSurface(<< <<2,1,2>>, <<4,1,2>>, <<4,3,2>>, <<2,3,2>> >>, "s3"),
      AnalyticalSurface(<< <<1,1,2>>, <<2,2,2>> >>, "s4"),
      AnalyticalSurface(<< <<1,1,5>>, <<3,1,5>>, <<3,3,5>>, <<1,3,5>> >>, "s5") }

WallCatalogue ==
    { RevitWall(BoxMesh(<<0,0,0>>, <<4,4,4>>), "wA"),
      RevitWall(BoxMesh(<<0,0,0>>, <<8,4,4>>), "wB"),
      RevitWall(TwoBoxMesh(<<0,0,0>>, <<4,4,4>>, <<5,0,0>>, <<9,4,4>>), "wC"),
      RevitWall(EmptyMesh, "wE") }

Lists(S, n) ==
    { s \in UNION { [1 .. k -> S] : k \in 0 .. n } :
        \A i, j \in DOMAIN s : i # j => s[i].id # s[j].id }

Distances == (0 - MaxNegDist) .. MaxDist

----------------------------------------------------------------------------
(* SurfaceWallMatcher.find_matching_partners *)

RevitIdle ==
    /\ server_branch = NoModel
    /\ run_model_id = None
    /\ model = NoModel
    /\ revit_pc = "off"
    /\ revit_out = None
    /\ received = << >>

Init ==
    /\ analytical_surfaces \in Lists(SurfaceCatalogue, MaxSurfaces)
    /\ architectural_walls \in Lists(WallCatalogue, MaxWalls)
    /\ buffer_distance \in Distances
    /\ boundary_inside \in BOOLEAN
    /\ matches = << >>
    /\ task = [i \in DOMAIN analytical_surfaces |-> [pc |-> "pending", wall |-> 1, match_found |-> FALSE]]
    /\ writes = [i \in DOMAIN analytical_surfaces |-> << >>]
    /\ outcome = "running"
    /\ RevitIdle

Tasks == DOMAIN task

Running(i) == task[i].pc \in {"loop", "check", "tail"}

\* wait(futures, return_when=FIRST_COMPLETED) in place of the default.
TerminalFirstCompleted(i) == \E j \in Tasks : task[j].pc \in {"done", "failed"}

Terminal(i) == task[i].pc \in {"done", "failed"}

\* A worker of the pool takes the next future of the queue (submission order).
StartTask(i) ==
    /\ outcome = "running"
    /\ task[i].pc = "pending"
    /\ \A j \in Tasks : j < i => task[j].pc # "pending"
    /\ Cardinality({ j \in Tasks : Running(j) }) < MaxWorkers
    /\ task' = [task EXCEPT ![i].pc = "loop"]
    /\ UNCHANGED << analytical_surfaces, architectural_walls, buffer_distance,
                    boundary_inside, matches, outcome >>
    /\ UNCHANGED writes
    /\ UNCHANGED revit_vars

\* Lines 67-69 for a wall whose bounds are None: subscripting raises, the
\* exception ends process_surface and is kept in the future.
BoundsRaises(i) ==
    /\ task[i].pc = "loop"
    /\ task[i].wall <= Len(architectural_walls)
    /\ architectural_walls[task[i].wall].bounds = None
    /\ task' = [task EXCEPT ![i].pc = "failed"]
    /\ UNCHANGED << analytical_surfaces, architectural_walls, buffer_distance,
                    boundary_inside, matches, outcome >>
    /\ UNCHANGED writes
    /\ UNCHANGED revit_vars

\* Lines 67-69: the next wall of the list and the test of the two boxes.
BoundsTest(i) ==
    /\ task[i].pc = "loop"
    /\ task[i].wall <= Len(architectural_walls)
    /\ architectural_walls[task[i].wall].bounds # None
    /\ IF BoundsOverlap(analytical_surfaces[i].bounds,
                        architectural_walls[task[i].wall].bounds, buffer_distance)
       THEN task' = [task EXCEPT ![i].pc = "check"]
       ELSE task' = [task EXCEPT ![i].wall = @ + 1]
    /\ UNCHANGED << analytical_surfaces, architectural_walls, buffer_distance,
                    boundary_inside, matches, outcome >>
    /\ UNCHANGED writes
    /\ UNCHANGED revit_vars

\* Lines 70-73: check_surface_wall_match, and on True the write and the break.
CheckMatch(i) ==
    /\ task[i].pc = "check"
    /\ IF check_surface_wall_match(analytical_surfaces[i],
                                   architectural_walls[task[i].wall],
                                   buffer_distance, boundary_inside)
       THEN /\ matches' = Record(matches, analytical_surfaces[i],
                                 architectural_walls[task[i].wall].id)
            /\ writes' = [writes EXCEPT ![i] = Append(@, ChangedKeys(matches, matches'))]
            /\ task' = [task EXCEPT ![i].pc = "tail", ![i].match_found = TRUE]
       ELSE /\ matches' = matches
            /\ writes' = writes
            /\ task' = [task EXCEPT ![i].pc = "loop", ![i].wall = @ + 1]
    /\ UNCHANGED << analytical_surfaces, architectural_walls, buffer_distance,
                    boundary_inside, outcome >>
    /\ UNCHANGED revit_vars

\* Lines 75-76, reached by the break or by the end of the list; the future is
\* done when process_surface returns.
AfterLoop(i) ==
    /\ \/ task[i].pc = "tail"
       \/ task[i].pc = "loop" /\ task[i].wall > Len(architectural_walls)
    /\ IF NeedsNone(task[i].match_found)
       THEN /\ matches' = Record(matches, analytical_surfaces[i], "none")
            /\ writes' = [writes EXCEPT ![i] = Append(@, ChangedKeys(matches, matches'))]
       ELSE /\ matches' = matches
            /\ writes' = writes
    /\ task' = [task EXCEPT ![i].pc = "done"]
    /\ UNCHANGED << analytical_surfaces, architectural_walls, buffer_distance,
                    boundary_inside, outcome >>
    /\ UNCHANGED revit_vars

\* Lines 81-83: wait returns when every future is done (with a result or with
\* an exception, which nobody reads), the pool shuts down, matches is returned.
Return ==
    /\ outcome = "running"
    /\ \A i \in Tasks : Terminal(i)
    /\ outcome' = "returned"
    /\ UNCHANGED << analytical_surfaces, architectural_walls, buffer_distance,
                    boundary_inside, matches, task >>
    /\ UNCHANGED writes
    /\ UNCHANGED revit_vars

Next ==
    \/ \E i \in Tasks : StartTask(i)
    \/ \E i \in Tasks : BoundsRaises(i)
    \/ \E i \in Tasks : BoundsTest(i)
    \/ \E i \in Tasks : CheckMatch(i)
    \/ \E i \in Tasks : AfterLoop(i)
    \/ Return

Spec == Init /\ [][Next]_vars

----------------------------------------------------------------------------
(* models/revit.py: get_revit_model *)

ModelIds == {"m1", "m2", "m3"}

Commits == { [ id |-> "c1", referencedObject |-> "o1" ],
             [ id |-> "c2", referencedObject |-> "o2" ] }

\* What the server holds under static_model_name: nothing, or a model with its
\* versions, newest first.
Branches ==
    {NoModel} \cup
    [ id : ModelIds, commits : UNION { [1 .. n -> Commits] : n \in 0 .. MaxCommits } ]

MsgNoModel == "The static model named does not exist, skipping the function."
MsgNoVersions == "The static model has no versions, skipping the function."
MsgSameModel == "The static model is the same as the changed model, skipping the function."

MatcherIdle ==
    /\ analytical_surfaces = << >>
    /\ architectural_walls = << >>
    /\ buffer_distance = 0
    /\ boundary_inside = FALSE
    /\ matches = << >>
    /\ task = << >>
    /\ writes = << >>
    /\ outcome = "off"

InitRevit ==
    /\ server_branch \in Branches
    /\ run_model_id \in ModelIds
    /\ model = NoModel
    /\ revit_pc = "start"
    /\ revit_out = None
    /\ received = << >>
    /\ MatcherIdle

\* Lines 19-21: branch.get(project_id, static_model_name, commits_limit=1)
BranchGet ==
    /\ revit_pc = "start"
    /\ model' = IF server_branch = NoModel THEN NoModel
                ELSE [ server_branch EXCEPT
                         !.commits = SubSeq(@, 1, IF Len(@) < 1 THEN Len(@) ELSE 1) ]
    /\ revit_pc' = "got"
    /\ UNCHANGED << server_branch, run_model_id, revit_out, received >>
    /\ UNCHANGED matcher_vars

\* Lines 23-24: if not model
CheckModel ==
    /\ revit_pc = "got"
    /\ IF model = NoModel
       THEN revit_pc' = "raised" /\ revit_out' = MsgNoModel
       ELSE revit_pc' = "has_model" /\ revit_out' = revit_out
    /\ UNCHANGED << server_branch, run_model_id, model, received >>
    /\ UNCHANGED matcher_vars

\* Lines 26-29: if not reference_model_commits
CheckVersions ==
    /\ revit_pc = "has_model"
    /\ IF model.commits = << >>
       THEN revit_pc' = "raised" /\ revit_out' = MsgNoVersions
       ELSE revit_pc' = "has_versions" /\ revit_out' = revit_out
    /\ UNCHANGED << server_branch, run_model_id, model, received >>
    /\ UNCHANGED matcher_vars

\* The comparison against the version id instead of the model id.
SameAsChangedVersion(reference_model, changed_model_id) ==
    reference_model.commits[1].id = changed_model_id

\* Line 35: latest_reference_model_id == automation_run_data.model_id
SameAsChanged(reference_model, changed_model_id) ==
    reference_model.id = changed_model_id

\* Lines 31-38
CheckSameModel ==
    /\ revit_pc = "has_versions"
    /\ IF SameAsChanged(model, run_model_id)
       THEN revit_pc' = "raised" /\ revit_out' = MsgSameModel
       ELSE revit_pc' = "distinct" /\ revit_out' = revit_out
    /\ UNCHANGED << server_branch, run_model_id, model, received >>
    /\ UNCHANGED matcher_vars

\* Lines 40-45: operations.receive of the latest version, and the return.
Receive ==
    /\ revit_pc = "distinct"
    /\ received' = Append(received, model.commits[1].referencedObject)
    /\ revit_out' = << [ id |-> model.commits[1].referencedObject ],
                       model.id, model.commits[1].id >>
    /\ revit_pc' = "returned"
    /\ UNCHANGED << server_branch, run_model_id, model >>
    /\ UNCHANGED matcher_vars

NextRevit ==
    \/ BranchGet
    \/ CheckModel
    \/ CheckVersions
    \/ CheckSameModel
    \/ Receive

SpecRevit == InitRevit /\ [][NextRevit]_vars

----------------------------------------------------------------------------
(* Properties of find_matching_partners *)

SurfaceIds == { analytical_surfaces[i].id : i \in DOMAIN analytical_surfaces }

WellFormed(wall) == wall.bounds # None

\* Every boundary point and every lattice point of the surface is inside the
\* wall's mesh buffered by distance.
FullyInside(surface, wall, distance, onBoundary) ==
    LET buffered == RayIntersector(create_buffered_mesh(wall.mesh, distance))
    IN  /\ \A i \in DOMAIN surface.points :
               ContainsPoint(buffered,
                             [a \in Axes |-> (num_points - 1) * surface.points[i][a]],
                             onBoundary)
        /\ \A p \in generate_interior_points(surface) :
               ContainsPoint(buffered, p, onBoundary)

\* The walls of the list that pass every check for the surface.
Passing(surface, distance) ==
    { k \in DOMAIN architectural_walls :
        /\ WellFormed(architectural_walls[k])
        /\ BoundsOverlap(surface.bounds, architectural_walls[k].bounds, distance)
        /\ FullyInside(surface, architectural_walls[k], distance, boundary_inside) }

\* process_surface run alone from wall k on: the value it writes, or "raise".
RECURSIVE ProcessFrom(_, _, _)
ProcessFrom(surface, k, distance) ==
    IF k > Len(architectural_walls) THEN "none"
    ELSE IF ~WellFormed(architectural_walls[k]) THEN "raise"
    ELSE IF /\ BoundsOverlap(surface.bounds, architectural_walls[k].bounds, distance)
            /\ check_surface_wall_match(surface, architectural_walls[k], distance,
                                        boundary_inside)
         THEN architectural_walls[k].id
         ELSE ProcessFrom(surface, k + 1, distance)

\* The dict after the tasks have run one after the other, in list order.
RECURSIVE SequentialFrom(_, _)
SequentialFrom(m, i) ==
    IF i > Len(analytical_surfaces) THEN m
    ELSE LET r == ProcessFrom(analytical_surfaces[i], 1, buffer_distance)
         IN  SequentialFrom(IF r = "raise" THEN m
                            ELSE Record(m, analytical_surfaces[i], r), i + 1)

\* C1: the mapping returned for a non-empty list of surfaces has exactly one
\* entry per surface id, also when a task raised (stated for the buffer
\* distances the configuration allows, those >= 0).
Totality ==
    (outcome = "returned" /\ analytical_surfaces # << >> /\ buffer_distance >= 0)
        => DOMAIN matches = SurfaceIds

\* C2: the value recorded for a surface is the id of the first wall of the list
\* that passes the box test and contains all its boundary and lattice points,
\* no wall after that one was looked at, and the value is "none" exactly when
\* no wall passes.
FirstFit ==
    \A i \in Tasks :
        task[i].pc = "done" =>
            LET surface == analytical_surfaces[i]
                passing == Passing(surface, buffer_distance)
            IN  /\ surface.id \in DOMAIN matches
                /\ IF passing = {}
                   THEN matches[surface.id] = "none"
                   ELSE /\ matches[surface.id] = architectural_walls[SeqMin(passing)].id
                        /\ task[i].wall = SeqMin(passing)

\* C2 witness: the first wall passed the box test and failed containment, the
\* second wall is recorded.
FirstFitWitness ==
    \E i \in Tasks :
        /\ task[i].pc = "done"
        /\ Len(architectural_walls) = 2
        /\ WellFormed(architectural_walls[1])
        /\ BoundsOverlap(analytical_surfaces[i].bounds, architectural_walls[1].bounds,
                         buffer_distance)
        /\ analytical_surfaces[i].id \in DOMAIN matches
        /\ matches[analytical_surfaces[i].id] = architectural_walls[2].id

\* C3: a call with no walls does not return a mapping, and so never one in
\* which every surface is "none" (stated for a call that has surfaces and a
\* buffer distance >= 0).
EmptyInputRejected ==
    (architectural_walls = << >> /\ analytical_surfaces # << >> /\ buffer_distance >= 0)
        => outcome # "returned"

\* C4: when a wall of the list cannot be buffered or classified, every surface
\* still ends with the result of the remaining walls, in list order (stated
\* for a buffer distance >= 0).
MalformedWallSkipped ==
    (outcome = "returned" /\ buffer_distance >= 0 /\ \E k \in DOMAIN architectural_walls :
                                ~WellFormed(architectural_walls[k]))
        => \A i \in Tasks :
               LET surface == analytical_surfaces[i]
                   passing == Passing(surface, buffer_distance)
               IN  /\ surface.id \in DOMAIN matches
                   /\ matches[surface.id] =
                          IF passing = {} THEN "none"
                          ELSE architectural_walls[SeqMin(passing)].id

\* C5: a call that returns a mapping had no task that failed and no surface of
\* fewer than 3 points; otherwise the call fails as a whole (stated for a
\* buffer distance >= 0).
NoSilentFailure ==
    (outcome = "returned" /\ buffer_distance >= 0)
        => \A i \in Tasks : /\ task[i].pc # "failed"
                            /\ Len(analytical_surfaces[i].points) >= 3

\* C6: with a negative buffer distance no task gets as far as buffering a mesh
\* and classifying points.
NegativeBufferRejected ==
    buffer_distance < 0 => \A i \in Tasks : task[i].pc # "check"

\* C7: the mapping returned is the one the tasks produce when run one after
\* the other in list order, whatever the interleaving was.
Deterministic ==
    outcome = "returned" => matches = SequentialFrom(<< >>, 1)

\* C7 witness: a later task has written its entry while an earlier one is
\* still inside its loop.
DeterministicWitness ==
    \E i, j \in Tasks :
        /\ i < j
        /\ task[i].pc \in {"loop", "check"}
        /\ task[j].pc = "done"
        /\ analytical_surfaces[j].id \in DOMAIN matches

\* C8: for a tolerance >= 0, a surface that lies fully inside a wall's buffered
\* mesh is never pruned by the box test.
PruningSound ==
    (outcome = "returned" /\ buffer_distance >= 0)
        => \A i \in Tasks : \A k \in DOMAIN architectural_walls :
               (/\ WellFormed(architectural_walls[k])
                /\ FullyInside(analytical_surfaces[i], architectural_walls[k],
                               buffer_distance, boundary_inside))
                   => BoundsOverlap(analytical_surfaces[i].bounds,
                                    architectural_walls[k].bounds, buffer_distance)

\* C8 witness: a surface that lies outside the wall's own box on one axis is
\* recorded for that wall.
PruningSoundWitness ==
    /\ outcome = "returned"
    /\ buffer_distance >= 0
    /\ \E i \in Tasks : \E k \in DOMAIN architectural_walls :
           /\ WellFormed(architectural_walls[k])
           /\ \E a \in Axes : analytical_surfaces[i].bounds[1][a]
                                   > architectural_walls[k].bounds[2][a]
           /\ analytical_surfaces[i].id \in DOMAIN matches
           /\ matches[analytical_surfaces[i].id] = architectural_walls[k].id

\* C9: a surface mapped to a wall at the buffer distance of the call is mapped
\* to some wall at every larger buffer distance (stated for a buffer distance
\* >= 0).
MonotoneTolerance ==
    (outcome = "returned" /\ buffer_distance >= 0)
        => \A i \in Tasks :
               (/\ analytical_surfaces[i].id \in DOMAIN matches
                /\ matches[analytical_surfaces[i].id] # "none")
                   => \A d \in Distances :
                          d > buffer_distance
                              => ProcessFrom(analytical_surfaces[i], 1, d)
                                     \notin {"none", "raise"}

\* C11: when the mapping is returned every task is in a terminal state (done
\* or failed), none is pending or running, and after the return no task
\* writes to the mapping.
JoinBeforeReturn ==
    /\ [](outcome = "returned" => \A i \in Tasks : task[i].pc \in {"done", "failed"})
    /\ [][outcome = "returned" => (matches' = matches /\ writes' = writes)]_vars

\* C11 witness: the call has returned from two tasks, one that finished with a
\* result and one that finished with an exception.
JoinBeforeReturnWitness ==
    /\ outcome = "returned"
    /\ \E i, j \in Tasks : task[i].pc = "done" /\ task[j].pc = "failed"

\* C12: every task writes exactly once, under the id of its own surface only, no
\* two tasks write the same key, and the entry of a surface, once written, is
\* a wall id or "none" and is not written again (stated for a buffer distance
\* >= 0).
OneWritePerTask ==
    buffer_distance >= 0 =>
        /\ \A i \in Tasks :
               /\ Len(writes[i]) <= 1
               /\ task[i].pc \in {"done", "failed"} => Len(writes[i]) = 1
               /\ \A n \in DOMAIN writes[i] : writes[i][n] = {analytical_surfaces[i].id}
        /\ \A i, j \in Tasks :
               i # j => \A n \in DOMAIN writes[i] : \A m \in DOMAIN writes[j] :
                           writes[i][n] \cap writes[j][m] = {}
        /\ \A k \in DOMAIN matches :
               matches[k] \in {"none"} \cup { architectural_walls[w].id :
                                                w \in DOMAIN architectural_walls }

----------------------------------------------------------------------------
(* Properties of get_revit_model *)

\* C10: the checks are made in the order model, versions, same model, each
\* failing with its message and without a receive; the latest version is
\* received and returned only when all three pass.
RevitChecksInOrder ==
    /\ revit_pc = "raised" =>
           /\ received = << >>
           /\ revit_out = IF server_branch = NoModel THEN MsgNoModel
                          ELSE IF server_branch.commits = << >> THEN MsgNoVersions
                          ELSE MsgSameModel
           /\ (server_branch # NoModel /\ server_branch.commits # << >>)
                  => server_branch.id = run_model_id
    /\ revit_pc = "returned" =>
           /\ server_branch # NoModel
           /\ server_branch.commits # << >>
           /\ server_branch.id # run_model_id
           /\ received = << server_branch.commits[1].referencedObject >>
           /\ revit_out = << [ id |-> server_branch.commits[1].referencedObject ],
                             server_branch.id, server_branch.commits[1].id >>
    /\ revit_pc \notin {"raised", "returned"} => received = << >>

\* C10 witness: the third check failed, after the first two passed.
RevitChecksWitness ==
    /\ revit_pc = "raised"
    /\ revit_out = MsgSameModel
    /\ server_branch.commits # << >>

====
